---- MODULE Spec2Model ----
\* Model of the terminal snake game of src/src/main.rs: the Game struct, its
\* init_field / step_forward / update methods and the main loop that drives
\* update once per frame.
EXTENDS Integers, Sequences, FiniteSets, TLC

\* ---------------------------------------------------------------------------
\* Bounds.  Game::new fixes the grid at 40 x 20; every method reads the size
\* only through self.width / self.height, so the model runs the same code on
\* a smaller grid.  MaxSnake caps the length a live snake may have at the
\* start of a tick.
\* ---------------------------------------------------------------------------
width == 6

height == 5

MaxSnake == 5

\* ---------------------------------------------------------------------------
\* Types
\* ---------------------------------------------------------------------------
\* enum Movement, wrapped in Option: None is Option::None.
Up == "Up"

Down == "Down"

Left == "Left"

Right == "Right"

None == "None"

Movement == {Up, Down, Left, Right}

\* enum EntityType
Wall == "Wall"

Food == "Food"

\* struct Entity
Entity(t, ex, ey) == [entity_type |-> t, x |-> ex, y |-> ey]

\* struct SnakePart.  Coordinates are u32; the model keeps them as integers
\* congruent modulo 2^32 (0 - 1 is written -1, the representative of
\* 4294967295).  The code only ever compares coordinates for equality and
\* adds or subtracts 1, so the congruence is exact for a wrapping build.
SnakePart(px, py) == [x |-> px, y |-> py]

\* ---------------------------------------------------------------------------
\* State: the fields of Game (width and height never change and are the
\* definitions above).
\* ---------------------------------------------------------------------------
VARIABLES is_running, is_alive, movement, entities, snake

vars == <<is_running, is_alive, movement, entities, snake>>

\* The Game value as a record, so that the methods can be written as
\* functions from Game to Game.
Self == [is_running |-> is_running, is_alive |-> is_alive, movement |-> movement,
         entities |-> entities, snake |-> snake]

\* ---------------------------------------------------------------------------
\* Input: ncurses::getch() as u8
\* ---------------------------------------------------------------------------
\* Values getch hands out: ERR (-1, no key pressed: nodelay is on), Escape,
\* the letters the match names in both cases, and one unbound letter ('x').
Keys == {-1, 27, 114, 82, 119, 87, 97, 65, 115, 83, 100, 68, 120}

\* the `as u8` cast
AsU8(ch) == ch % 256

QuitKeys == {27}

RestartKeys == {114, 82}

UpKeys == {119, 87}

LeftKeys == {97, 65}

DownKeys == {115, 83}

RightKeys == {100, 68}

\* ---------------------------------------------------------------------------
\* rand: rng.gen_range(2..self.width-2), rng.gen_range(2..self.height-2)
\* (half-open ranges)
\* ---------------------------------------------------------------------------
\* mutant of FoodXs: a margin of one cell on the left, 1..width-2
FoodXs_margin_one == 1 .. (width - 2) - 1

\* mutant of FoodXs: the range taken as closed, 2..=width-2
FoodXs_closed == 2 .. (width - 2)

FoodXs == 2 .. (width - 2) - 1

FoodYs == 2 .. (height - 2) - 1

\* ---------------------------------------------------------------------------
\* Game::init_field
\* ---------------------------------------------------------------------------
\* first loop: for x in 0..width, push (x, 0) then (x, height-1)
RowWalls ==
  [i \in 1 .. 2 * width |->
     IF i % 2 = 1 THEN Entity(Wall, (i - 1) \div 2, 0)
                  ELSE Entity(Wall, (i - 1) \div 2, height - 1)]

\* mutant of ColumnWalls: the loop runs over 0..height, walling the four
\* corners a second time
ColumnWalls_full_height ==
  [i \in 1 .. 2 * height |->
     IF i % 2 = 1 THEN Entity(Wall, 0, (i - 1) \div 2)
                  ELSE Entity(Wall, width - 1, (i - 1) \div 2)]

\* second loop: for y in 1..height-1, push (0, y) then (width-1, y)
ColumnWalls ==
  [i \in 1 .. 2 * (height - 2) |->
     IF i % 2 = 1 THEN Entity(Wall, 0, 1 + (i - 1) \div 2)
                  ELSE Entity(Wall, width - 1, 1 + (i - 1) \div 2)]

\* mutant of Clear: the vector is left as it is
Clear_forgotten(v) == v

\* Vec::clear / VecDeque::clear
Clear(v) == << >>

\* mutant of init_field_with: the reset also sets is_running, as Game::new does
init_field_with_running(g, rx, ry) ==
  [g EXCEPT
     !.is_running = TRUE,
     !.is_alive = TRUE,
     !.movement = None,
     !.entities = Clear(g.entities) \o RowWalls \o ColumnWalls
                    \o << Entity(Food, rx, ry) >>,
     !.snake    = Append(Clear(g.snake), SnakePart(width \div 2, height \div 2))]

\* init_field once the generator has handed out rx and ry
init_field_with(g, rx, ry) ==
  [g EXCEPT
     !.is_alive = TRUE,
     !.movement = None,
     !.entities = Clear(g.entities) \o RowWalls \o ColumnWalls
                    \o << Entity(Food, rx, ry) >>,
     !.snake    = Append(Clear(g.snake), SnakePart(width \div 2, height \div 2))]

\* Every Game init_field can leave behind: one per pair of values the
\* generator may hand out.
init_field(g) ==
  { init_field_with(g, rx, ry) : rx \in FoodXs, ry \in FoodYs }

\* Game::new
NewGame ==
  init_field([is_running |-> TRUE, is_alive |-> TRUE, movement |-> None,
              entities |-> << >>, snake |-> << >>])

\* ---------------------------------------------------------------------------
\* Game::step_forward
\* ---------------------------------------------------------------------------
\* snake.back()
Back(sn) == sn[Len(sn)]

\* mutant of Offset: Up and Down take the screen's y axis the wrong way round
Offset_flipped(head, m) ==
  CASE m = Up    -> SnakePart(head.x, head.y + 1)
    [] m = Down  -> SnakePart(head.x, head.y - 1)
    [] m = Left  -> SnakePart(head.x - 1, head.y)
    [] m = Right -> SnakePart(head.x + 1, head.y)
    [] OTHER     -> head

\* the part pushed at the back for a movement m
Offset(head, m) ==
  CASE m = Up    -> SnakePart(head.x, head.y - 1)
    [] m = Down  -> SnakePart(head.x, head.y + 1)
    [] m = Left  -> SnakePart(head.x - 1, head.y)
    [] m = Right -> SnakePart(head.x + 1, head.y)
    [] OTHER     -> head

step_forward(g) ==
  LET head   == Back(g.snake)
      tail   == Head(g.snake)
      popped == Tail(g.snake)
  IN  IF g.movement = None
        THEN [g EXCEPT !.snake = << tail >> \o popped]
        ELSE [g EXCEPT !.snake = Append(popped, Offset(head, g.movement))]

\* ---------------------------------------------------------------------------
\* Game::update
\* ---------------------------------------------------------------------------
\* mutant of handle_key: the directional arms set the direction without the
\* reversal guard
handle_key_no_guard(g, k) ==
  CASE k \in QuitKeys    -> { [g EXCEPT !.is_running = FALSE] }
    [] k \in RestartKeys -> IF ~g.is_alive THEN init_field(g) ELSE {g}
    [] k \in UpKeys      -> { [g EXCEPT !.movement = Up] }
    [] k \in LeftKeys    -> { [g EXCEPT !.movement = Left] }
    [] k \in DownKeys    -> { [g EXCEPT !.movement = Down] }
    [] k \in RightKeys   -> { [g EXCEPT !.movement = Right] }
    [] OTHER             -> {g}

\* the match on the key; the result is the set of Games it can leave behind
\* (more than one only where init_field draws the food)
handle_key(g, k) ==
  CASE k \in QuitKeys    -> { [g EXCEPT !.is_running = FALSE] }
    [] k \in RestartKeys -> IF ~g.is_alive THEN init_field(g) ELSE {g}
    [] k \in UpKeys      -> IF g.movement # Down  THEN { [g EXCEPT !.movement = Up] }    ELSE {g}
    [] k \in LeftKeys    -> IF g.movement # Right THEN { [g EXCEPT !.movement = Left] }  ELSE {g}
    [] k \in DownKeys    -> IF g.movement # Up    THEN { [g EXCEPT !.movement = Down] }  ELSE {g}
    [] k \in RightKeys   -> IF g.movement # Left  THEN { [g EXCEPT !.movement = Right] } ELSE {g}
    [] OTHER             -> {g}

\* mutant of scan_entities: the Wall arm does not end the game
RECURSIVE scan_entities_wall_passes(_, _, _, _)
scan_entities_wall_passes(ents, i, head, grow) ==
  IF i > Len(ents)
    THEN { [entities |-> ents, grow |-> grow, hit_wall |-> FALSE] }
    ELSE IF ents[i].x = head.x /\ ents[i].y = head.y /\ ents[i].entity_type = Food
           THEN UNION { scan_entities_wall_passes([ents EXCEPT ![i].x = fx, ![i].y = fy],
                                                  i + 1, head, TRUE) :
                        fx \in 2 .. (width - 2) - 1, fy \in 2 .. (height - 2) - 1 }
           ELSE scan_entities_wall_passes(ents, i + 1, head, grow)

\* `for entity in self.entities.iter_mut()` from index i on.  Each result
\* carries the entity list, the grow flag and whether the loop returned from
\* update on a wall; there is one result per pair of values the generator may
\* hand out where the loop relocates the food.
RECURSIVE scan_entities(_, _, _, _)
scan_entities(ents, i, head, grow) ==
  IF i > Len(ents)
    THEN { [entities |-> ents, grow |-> grow, hit_wall |-> FALSE] }
    ELSE IF ents[i].x = head.x /\ ents[i].y = head.y
           THEN IF ents[i].entity_type = Food
                  THEN UNION { scan_entities([ents EXCEPT ![i].x = fx, ![i].y = fy],
                                             i + 1, head, TRUE) :
                               fx \in FoodXs, fy \in FoodYs }
                  ELSE { [entities |-> ents, grow |-> grow, hit_wall |-> TRUE] }
           ELSE scan_entities(ents, i + 1, head, grow)

\* mutant of hits_self: the scan does not stop short of the head
hits_self_with_head(sn, head) ==
  \E i \in 1 .. Len(sn) : sn[i].x = head.x /\ sn[i].y = head.y

\* mutant of hits_self: the scan starts at the second part
hits_self_skips_first(sn, head) ==
  \E i \in 2 .. Len(sn) - 1 : sn[i].x = head.x /\ sn[i].y = head.y

\* `for part in self.snake.iter().take(self.snake.len() - 1)`
hits_self(sn, head) ==
  \E i \in 1 .. Len(sn) - 1 : sn[i].x = head.x /\ sn[i].y = head.y

\* the placeholder pushed at the front when growing
Placeholder == SnakePart(0, 0)

\* mutant of grow_snake: the placeholder is not pushed before the advance
grow_snake_no_placeholder(g) == step_forward(g)

\* `if grow { push_front; step_forward }`
grow_snake(g) ==
  step_forward([g EXCEPT !.snake = << Placeholder >> \o g.snake])

\* mutant of after_scan: growth is decided before the self-collision loop, so
\* a head that ate is not checked against the body
after_scan_grow_first(g, sc) ==
  LET g2 == [g EXCEPT !.entities = sc.entities]
  IN  IF sc.hit_wall
        THEN [g2 EXCEPT !.is_alive = FALSE]
        ELSE IF sc.grow
               THEN grow_snake(g2)
               ELSE IF hits_self(g2.snake, Back(g2.snake))
                      THEN [g2 EXCEPT !.is_alive = FALSE]
                      ELSE g2

\* mutant of after_scan: the Wall arm returns without clearing is_alive
after_scan_wall_not_fatal(g, sc) ==
  LET g2 == [g EXCEPT !.entities = sc.entities]
  IN  IF sc.hit_wall
        THEN g2
        ELSE IF hits_self(g2.snake, Back(g2.snake))
               THEN [g2 EXCEPT !.is_alive = FALSE]
               ELSE IF sc.grow THEN grow_snake(g2) ELSE g2

\* update from the self-collision loop on, given the outcome sc of the entity
\* loop
after_scan(g, sc) ==
  LET g2 == [g EXCEPT !.entities = sc.entities]
  IN  IF sc.hit_wall
        THEN [g2 EXCEPT !.is_alive = FALSE]
        ELSE IF hits_self(g2.snake, Back(g2.snake))
               THEN [g2 EXCEPT !.is_alive = FALSE]
               ELSE IF sc.grow THEN grow_snake(g2) ELSE g2

\* update after the match, for a live game
simulate(g) ==
  LET g1 == step_forward(g)
  IN  { after_scan(g1, sc) : sc \in scan_entities(g1.entities, 1, Back(g1.snake), FALSE) }

\* mutant of update: no early return for a dead game
update_no_dead_return(g, k) ==
  UNION { simulate(g1) : g1 \in handle_key(g, k) }

\* the whole of update for the key byte k
update(g, k) ==
  UNION { IF ~g1.is_alive THEN {g1} ELSE simulate(g1) : g1 \in handle_key(g, k) }

\* ---------------------------------------------------------------------------
\* Game::render
\* ---------------------------------------------------------------------------
\* the <<row, column>> pairs render indexes `field` with: one per entity, one
\* per snake part (the head included)
render_indices(g) ==
  { << g.entities[i].y, g.entities[i].x >> : i \in DOMAIN g.entities }
    \cup { << g.snake[i].y, g.snake[i].x >> : i \in DOMAIN g.snake }

\* ---------------------------------------------------------------------------
\* Specification: main's loop calls update while is_running.
\* ---------------------------------------------------------------------------
Init ==
  \E g \in NewGame :
    /\ is_running = g.is_running
    /\ is_alive = g.is_alive
    /\ movement = g.movement
    /\ entities = g.entities
    /\ snake = g.snake

Update ==
  /\ is_running
  /\ is_alive => Len(snake) <= MaxSnake
  /\ \E ch \in Keys :
       \E g \in update(Self, AsU8(ch)) :
         /\ is_running' = g.is_running
         /\ is_alive' = g.is_alive
         /\ movement' = g.movement
         /\ entities' = g.entities
         /\ snake' = g.snake

Next == Update

Spec == Init /\ [][Next]_vars

\* ---------------------------------------------------------------------------
\* Vocabulary of the properties
\* ---------------------------------------------------------------------------
\* the coordinates of the entities of type t in the list ents
CellsOf(ents, t) ==
  { SnakePart(ents[i].x, ents[i].y) : i \in { j \in DOMAIN ents : ents[j].entity_type = t } }

\* how many entities of type t the list ents holds
CountOf(ents, t) == Cardinality({ j \in DOMAIN ents : ents[j].entity_type = t })

\* the cells of the grid's border
Border ==
  { SnakePart(bx, by) : bx \in 0 .. width - 1, by \in {0, height - 1} }
    \cup { SnakePart(bx, by) : bx \in {0, width - 1}, by \in 1 .. height - 2 }

Center == SnakePart(width \div 2, height \div 2)

\* In a step of update: the cell the first advance puts the head on.  The
\* match only changes the direction, so the direction the advance uses is the
\* one the tick ends with.
NewHead == Offset(Back(snake), movement')

\* The step is one update takes when getch hands out a key of the set ks
\* (key bytes).
TickOn(ks) ==
  \E ch \in Keys : AsU8(ch) \in ks /\ Self' \in update(Self, AsU8(ch))

KeyBytes == { AsU8(ch) : ch \in Keys }

DirectionKeys == UpKeys \cup DownKeys \cup LeftKeys \cup RightKeys

\* ---------------------------------------------------------------------------
\* C1 (as stated): on a growth tick (the tick starts alive, the first advance
\* moves the head onto the Food cell, the tick does not end in death) the
\* snake at the end of the tick is the pre-tick snake with the new head
\* appended: the head has moved one cell in the current direction and no
\* pre-tick segment is gone.
\* ---------------------------------------------------------------------------
C1_GrowthKeepsTail ==
  [][ (is_alive /\ movement' # None /\ NewHead \in CellsOf(entities, Food) /\ is_alive')
        => snake' = Append(snake, NewHead) ]_vars

\* ---------------------------------------------------------------------------
\* C2: in a tick that starts alive the length stays or grows by one; it grows
\* only if the head after the advance is on the pre-tick Food cell; and it
\* grows by exactly one when the head is on the Food cell and the tick does
\* not end in death.
\* ---------------------------------------------------------------------------
C2_LengthGrowsOnlyOnFood ==
  [][ is_alive =>
        /\ Len(snake') \in {Len(snake), Len(snake) + 1}
        /\ Len(snake') = Len(snake) + 1 => NewHead \in CellsOf(entities, Food)
        /\ (NewHead \in CellsOf(entities, Food) /\ is_alive')
             => Len(snake') = Len(snake) + 1 ]_vars

\* a snake of length 3 has eaten and is alive with length 4
C2_Witness == is_alive /\ Len(snake) = 4 /\ movement # None

\* ---------------------------------------------------------------------------
\* C3 (as stated): a tick that reads Restart while dead ends alive, with no
\* direction, the snake one segment at the grid's centre, exactly one Food
\* inside [2,width-2) x [2,height-2), and the full wall border.
\* ---------------------------------------------------------------------------
C3_RestartYieldsFreshBoard ==
  [][ (~is_alive /\ TickOn(RestartKeys)) =>
        /\ is_alive'
        /\ movement' = None
        /\ snake' = << Center >>
        /\ CountOf(entities', Food) = 1
        /\ \A c \in CellsOf(entities', Food) :
             2 <= c.x /\ c.x < width - 2 /\ 2 <= c.y /\ c.y < height - 2
        /\ CellsOf(entities', Wall) = Border ]_vars

\* ---------------------------------------------------------------------------
\* C4: once dead, a tick whose key is not Restart leaves the snake, the entity
\* list and the alive flag as they were.
\* ---------------------------------------------------------------------------
C4_DeathIsTerminal ==
  [][ (~is_alive /\ TickOn(KeyBytes \ RestartKeys)) =>
        /\ snake' = snake
        /\ entities' = entities
        /\ is_alive' = is_alive ]_vars

\* A dead game that has been ticked: the head lies on the top wall, which it
\* can only have entered going Up, and the direction is no longer Up, so a
\* key was read after the death.
C4_Witness ==
  /\ ~is_alive
  /\ Back(snake).y = 0
  /\ movement = Left
  /\ Len(snake) >= 2

\* ---------------------------------------------------------------------------
\* C5 (as stated): while dead, a tick that reads a directional key leaves the
\* direction as it was.
\* ---------------------------------------------------------------------------
C5_DeadIgnoresDirection ==
  [][ (~is_alive /\ TickOn(DirectionKeys)) => movement' = movement ]_vars

\* ---------------------------------------------------------------------------
\* C6 (as stated): on a tick where the head moves into a wall coordinate,
\* alive becomes false and the snake and the entity list end the tick as they
\* were before it.
\* ---------------------------------------------------------------------------
C6_WallDeathLeavesSnake ==
  [][ (is_alive /\ NewHead \in CellsOf(entities, Wall)) =>
        /\ ~is_alive'
        /\ snake' = snake
        /\ entities' = entities ]_vars

\* C6 (amended): on such a tick alive becomes false, the entity list is
\* unchanged, and the snake is the pre-tick snake advanced once: its tail
\* dropped and the new head, on the wall coordinate, appended.
C6_WallDeathAdvancesSnake ==
  [][ (is_alive /\ NewHead \in CellsOf(entities, Wall)) =>
        /\ ~is_alive'
        /\ snake' = Append(Tail(snake), NewHead)
        /\ entities' = entities ]_vars

\* a snake of two segments or more has died with its head on a wall
C6_Witness ==
  /\ ~is_alive
  /\ Len(snake) >= 2
  /\ Back(snake) \in CellsOf(entities, Wall)
  /\ snake[Len(snake) - 1] \notin CellsOf(entities, Wall)

\* ---------------------------------------------------------------------------
\* C7 (as stated): on a tick that starts alive with two segments or more, if
\* the head's new position is the coordinate of any non-head segment of the
\* pre-tick snake, the tail included, the tick ends dead.
\* ---------------------------------------------------------------------------
C7_SelfCollisionTailIncluded ==
  [][ (/\ is_alive
       /\ Len(snake) >= 2
       /\ movement' # None
       /\ \E i \in 1 .. Len(snake) - 1 : snake[i] = NewHead) => ~is_alive' ]_vars

\* C7 (amended): the same for any non-head segment of the pre-tick snake other
\* than its tail (the first one): the advance has already dropped the tail
\* when the snake is scanned, so the cell the tail leaves is free.
C7_SelfCollisionTailExcluded ==
  [][ (/\ is_alive
       /\ Len(snake) >= 2
       /\ movement' # None
       /\ \E i \in 2 .. Len(snake) - 1 : snake[i] = NewHead) => ~is_alive' ]_vars

\* a snake has died on itself: its head is on no wall but on another segment
C7_Witness ==
  /\ ~is_alive
  /\ Back(snake) \notin CellsOf(entities, Wall)
  /\ \E i \in 1 .. Len(snake) - 1 : snake[i] = Back(snake)

\* ---------------------------------------------------------------------------
\* C8 (as stated): at the end of every tick that leaves the game alive, the
\* snake's segments have pairwise distinct coordinates.
\* ---------------------------------------------------------------------------
C8_SegmentsDistinct ==
  is_alive => \A i, j \in DOMAIN snake : i # j => snake[i] # snake[j]

\* ---------------------------------------------------------------------------
\* C9: in every reachable state every Food entity lies in
\* [2,width-2) x [2,height-2), and so on no Wall coordinate.
\* ---------------------------------------------------------------------------
C9_FoodInInterior ==
  /\ \A c \in CellsOf(entities, Food) :
       2 <= c.x /\ c.x < width - 2 /\ 2 <= c.y /\ c.y < height - 2
  /\ CellsOf(entities, Food) \cap CellsOf(entities, Wall) = {}

\* the food has been eaten and relocated (the snake has grown), and the game
\* has then been lost
C9_Witness ==
  /\ ~is_alive
  /\ Len(snake) >= 3
  /\ Placeholder \notin { snake[i] : i \in DOMAIN snake }

\* ---------------------------------------------------------------------------
\* C10: in every reachable state the entity list holds exactly one Food
\* entity.
\* ---------------------------------------------------------------------------
C10_ExactlyOneFood == CountOf(entities, Food) = 1

\* the food has been eaten twice by a moving snake
C10_Witness ==
  /\ is_alive
  /\ Len(snake) = 3
  /\ movement # None
  /\ CellsOf(entities, Food) # {}

\* ---------------------------------------------------------------------------
\* C11: reversal guard.  A tick that reads the key of a direction d leaves the
\* direction as it was when d is the exact opposite of the current direction,
\* and otherwise (same direction, perpendicular, or no direction yet) ends
\* with direction d.
\* ---------------------------------------------------------------------------
\* the key bytes that request the direction d
KeysFor(d) ==
  CASE d = Up -> UpKeys [] d = Down -> DownKeys [] d = Left -> LeftKeys [] d = Right -> RightKeys

Opposite(d) ==
  CASE d = Up -> Down [] d = Down -> Up [] d = Left -> Right [] d = Right -> Left

C11_ReversalGuard ==
  [][ \A d \in Movement :
        TickOn(KeysFor(d)) =>
          movement' = (IF movement = Opposite(d) THEN movement ELSE d) ]_vars

\* a live snake that has turned: its last link goes Up, the one before Left
C11_Witness ==
  /\ is_alive
  /\ movement = Up
  /\ Len(snake) >= 3
  /\ snake[Len(snake)] = SnakePart(snake[Len(snake) - 1].x, snake[Len(snake) - 1].y - 1)
  /\ snake[Len(snake) - 1] = SnakePart(snake[Len(snake) - 2].x - 1, snake[Len(snake) - 2].y)

\* ---------------------------------------------------------------------------
\* C12: a tick that reads Quit ends with is_running false, and from a Game
\* whose is_running is false no call of update, whatever the key (Restart
\* included), yields one whose is_running is true.
\* ---------------------------------------------------------------------------
C12_QuitIsTerminal ==
  /\ [][ TickOn(QuitKeys) => ~is_running' ]_vars
  /\ [](~is_running =>
          \A ch \in Keys : \A g \in update(Self, AsU8(ch)) : ~g.is_running)

\* the game was quit after the snake had died, so that a Restart would reset
C12_Witness == ~is_running /\ ~is_alive

\* ---------------------------------------------------------------------------
\* C13: step_forward keeps the snake's length, whatever the direction and the
\* length (1 included); with a direction the head afterwards is the prior
\* head moved one unit (Up: y-1, Down: y+1, Left: x-1, Right: x+1); with no
\* direction the snake is the same sequence as before.  Checked on every
\* reachable snake, for each of the five directions.
\* ---------------------------------------------------------------------------
C13_AdvanceShiftsByOne ==
  \A m \in Movement \cup {None} :
    LET after == step_forward([Self EXCEPT !.movement = m]).snake
        old   == Back(snake)
        new   == Back(after)
    IN  /\ Len(after) = Len(snake)
        /\ m = Up    => new.x = old.x     /\ new.y = old.y - 1
        /\ m = Down  => new.x = old.x     /\ new.y = old.y + 1
        /\ m = Left  => new.x = old.x - 1 /\ new.y = old.y
        /\ m = Right => new.x = old.x + 1 /\ new.y = old.y
        /\ m = None  => after = snake

\* a snake of one segment has advanced: it is still one segment, off centre
C13_Witness ==
  /\ is_alive
  /\ Len(snake) = 1
  /\ movement = Up
  /\ snake[1] = SnakePart(width \div 2, height \div 2 - 1)

BodyAfterAdvance ==
  IF movement' = None THEN SubSeq(snake, 1, Len(snake) - 1) ELSE Tail(snake)

C15_SelfCollisionBeatsGrowth ==
  [][ (/\ is_alive
       /\ NewHead \in CellsOf(entities, Food)
       /\ \E i \in DOMAIN BodyAfterAdvance : BodyAfterAdvance[i] = NewHead)
        => (~is_alive' /\ Len(snake') = Len(snake)) ]_vars

\* A live game one tick away from the case: the Food lies on a body segment
\* other than the tail, next to the head, in a direction the reversal guard
\* lets the player take.
C15_Witness ==
  /\ is_running
  /\ is_alive
  /\ Len(snake) <= MaxSnake
  /\ \E d \in Movement :
       /\ movement # Opposite(d)
       /\ Offset(Back(snake), d) \in CellsOf(entities, Food)
       /\ \E i \in 2 .. Len(snake) - 1 : snake[i] = Offset(Back(snake), d)

\* ---------------------------------------------------------------------------
\* C16: in every reachable state the Wall coordinates are exactly the grid's
\* border, each border cell walled once; and no step, reset included, changes
\* the Wall entities (a reset rebuilds the same ones).
\* ---------------------------------------------------------------------------
\* the Wall entities of the list ents, in order
WallsOf(ents) == SelectSeq(ents, LAMBDA e : e.entity_type = Wall)

C16_WallsAreTheBorder ==
  /\ [](/\ CellsOf(entities, Wall) = Border
        /\ CountOf(entities, Wall) = Cardinality(Border))
  /\ [][ WallsOf(entities') = WallsOf(entities) ]_vars

\* a one-segment snake has run into a wall: the head shares the wall's cell
\* and the wall is still there
C16_Witness ==
  /\ ~is_alive
  /\ Len(snake) = 1
  /\ Back(snake) \in CellsOf(entities, Wall)

\* ---------------------------------------------------------------------------
\* C17: in every reachable state with is_alive the head lies strictly inside
\* the wall border, 1 <= x <= width-2 and 1 <= y <= height-2; this covers the
\* head the second, unchecked advance of a growth tick leaves.
\* ---------------------------------------------------------------------------
C17_LiveHeadInsideBorder ==
  is_alive =>
    /\ 1 <= Back(snake).x /\ Back(snake).x <= width - 2
    /\ 1 <= Back(snake).y /\ Back(snake).y <= height - 2

\* a growth tick has left the head next to the left wall: the snake ate at
\* x = 2 going Left and the second advance moved the head on to x = 1
C17_Witness ==
  /\ is_alive
  /\ movement = Left
  /\ Len(snake) = 2
  /\ snake[1].x = 2
  /\ snake[2].x = 1
  /\ snake[1].y = snake[2].y

\* ---------------------------------------------------------------------------
\* C18: in every reachable state, alive or dead, every snake segment (the
\* growth placeholder included) has 0 <= x < width and 0 <= y < height.  A
\* coordinate that step_forward took below 0 would stay in the snake as -1,
\* so no executed step_forward underflows; and every index render uses lies
\* inside the height x width field.
\* ---------------------------------------------------------------------------
C18_SegmentsInsideGrid ==
  /\ \A i \in DOMAIN snake :
       /\ 0 <= snake[i].x /\ snake[i].x < width
       /\ 0 <= snake[i].y /\ snake[i].y < height
  /\ \A rc \in render_indices(Self) :
       /\ 0 <= rc[1] /\ rc[1] < height
       /\ 0 <= rc[2] /\ rc[2] < width

\* the head stands on the left wall at x = 0 with direction Left: one more
\* step_forward would underflow, and the game is dead, so none is made
C18_Witness ==
  /\ ~is_alive
  /\ movement = Left
  /\ Back(snake).x = 0
  /\ Len(snake) >= 3

\* ---------------------------------------------------------------------------
\* C19: the game cannot die while idle: in every reachable state a dead game
\* has a direction; and the direction goes back to None only in a tick that
\* reads Restart while dead (a reset).
\* ---------------------------------------------------------------------------
C19_NoDeathWhileIdle ==
  /\ [](~is_alive => movement # None)
  /\ [][ (movement # None /\ movement' = None)
           => (~is_alive /\ TickOn(RestartKeys)) ]_vars

\* a game lost on the right wall, still with the direction it died in
C19_Witness ==
  /\ ~is_alive
  /\ movement = Right
  /\ Back(snake).x = width - 1

\* ---------------------------------------------------------------------------
\* C20: from every reachable state with is_alive and a direction, ticks that
\* read no key lead to is_alive = false within max(width, height) ticks,
\* whatever the generator draws on the way.
\* ---------------------------------------------------------------------------
\* the byte update sees when getch hands out ERR
NoKeyByte == AsU8(-1)

\* every run of at most n calls of update on no key, from g, ends dead
RECURSIVE DeadWithin(_, _)
DeadWithin(g, n) ==
  \/ ~g.is_alive
  \/ n > 0 /\ \A g2 \in update(g, NoKeyByte) : DeadWithin(g2, n - 1)

MaxQuietTicks == IF width > height THEN width ELSE height

C20_QuietRunEndsDead ==
  (is_alive /\ movement # None) => DeadWithin(Self, MaxQuietTicks)

\* a live, moving snake as far from the wall ahead as a tick can leave it (a
\* tick that set the direction has already moved the head one cell): its
\* quiet run lasts width - 3 ticks, so it is not over after width - 4
C20_Witness ==
  /\ is_alive
  /\ movement # None
  /\ ~DeadWithin(Self, width - 4)

====
